---------------------------- MODULE Spec2Model ----------------------------
(***************************************************************************)
(* Model of models/mav_dynamics_control.py: class MavDynamics, the 6-DOF   *)
(* fixed-wing dynamics core with sensor synthesis.                         *)
(*                                                                         *)
(* Numbers.  The program computes in floating point; the model computes in *)
(* integers on a grid.  Lengths, speeds, forces and noise are integers.    *)
(* Angles are counted in quarter turns (1 = pi/2), kept in -1..2, so that  *)
(* sin and cos are exact; atan2 and asin return the nearest grid angle.    *)
(* Every formula keeps the operands and the shape it has in the source, a  *)
(* float division a / b becomes the integer division a \div b.             *)
(*                                                                         *)
(* Objects.  A MavDynamics instance is a record whose fields are the       *)
(* instance attributes (without the leading underscore).  A method is an   *)
(* operator from the instance (and the arguments) to the instance after    *)
(* the call.  The field log is instrumentation: the private methods the    *)
(* running public method has entered, in order.                            *)
(***************************************************************************)
EXTENDS Integers, Sequences, FiniteSets, TLC

VARIABLES mav, twin, op, calls

vars == <<mav, twin, op, calls>>

(* The number of public method calls made on the instance in one run. *)
MaxCalls == 4

-----------------------------------------------------------------------------
(* numpy on the grid *)

Abs(x) == IF x < 0 THEN -x ELSE x

Sign(x) == IF x > 0 THEN 1 ELSE IF x < 0 THEN -1 ELSE 0

Sin(a) == LET r == a % 4 IN IF r = 1 THEN 1 ELSE IF r = 3 THEN -1 ELSE 0

Cos(a) == LET r == a % 4 IN IF r = 0 THEN 1 ELSE IF r = 2 THEN -1 ELSE 0

(* np.arctan2(y, x), to the nearest axis *)
ArcTan2(y, x) ==
    IF Abs(x) >= Abs(y)
    THEN (IF x >= 0 THEN 0 ELSE 2)
    ELSE (IF y > 0 THEN 1 ELSE -1)

(* np.arcsin(num / den) for den > 0, to the nearest grid angle: a quarter *)
(* turn from sin(pi/4) on, i.e. from 2 num^2 >= den^2                     *)
ArcSin(num, den) == IF 2 * num * num >= den * den THEN Sign(num) ELSE 0

RECURSIVE SqrtFrom(_, _)
SqrtFrom(s, x) ==
    LET y == (x + s \div x) \div 2
    IN  IF y >= x THEN x ELSE SqrtFrom(s, y)

(* np.sqrt, rounded down (Newton's iteration from above) *)
Sqrt(s) == IF s = 0 THEN 0 ELSE SqrtFrom(s, s)

(* np.linalg.norm of a 3-vector *)
Norm(v) == Sqrt(v[1] * v[1] + v[2] * v[2] + v[3] * v[3])

(* a 3x3 matrix (a tuple of rows) times a 3-vector *)
MatVec(R, v) == [i \in 1..3 |-> R[i][1] * v[1] + R[i][2] * v[2] + R[i][3] * v[3]]

Transpose(R) == [i \in 1..3 |-> [j \in 1..3 |-> R[j][i]]]

-----------------------------------------------------------------------------
(* tools.rotations *)

(* Euler angles of a quaternion <<e0, e1, e2, e3>> *)
quaternion_to_euler(e) ==
    LET e0 == e[1]
        e1 == e[2]
        e2 == e[3]
        e3 == e[4]
    IN  [phi   |-> ArcTan2(2 * (e0 * e1 + e2 * e3), e0 * e0 + e3 * e3 - e1 * e1 - e2 * e2),
         theta |-> ArcSin(2 * (e0 * e2 - e1 * e3), 1),
         psi   |-> ArcTan2(2 * (e0 * e3 + e1 * e2), e0 * e0 + e1 * e1 - e2 * e2 - e3 * e3)]

(* the quaternion of Euler angles that are whole half turns, whose half *)
(* angles are on the grid                                               *)
euler_to_quaternion(phi, theta, psi) ==
    LET cf == Cos(phi \div 2)
        sf == Sin(phi \div 2)
        ct == Cos(theta \div 2)
        st == Sin(theta \div 2)
        cp == Cos(psi \div 2)
        sp == Sin(psi \div 2)
    IN  <<cp * ct * cf + sp * st * sf,
          cp * ct * sf - sp * st * cf,
          cp * st * cf + sp * ct * sf,
          sp * ct * cf - cp * st * sf>>

(* body to inertial rotation of a quaternion *)
quaternion_to_rotation(e) ==
    LET e0 == e[1]
        e1 == e[2]
        e2 == e[3]
        e3 == e[4]
    IN  << <<e0 * e0 + e1 * e1 - e2 * e2 - e3 * e3, 2 * (e1 * e2 - e0 * e3), 2 * (e1 * e3 + e0 * e2)>>,
           <<2 * (e1 * e2 + e0 * e3), e0 * e0 - e1 * e1 + e2 * e2 - e3 * e3, 2 * (e2 * e3 - e0 * e1)>>,
           <<2 * (e1 * e3 - e0 * e2), 2 * (e2 * e3 + e0 * e1), e0 * e0 - e1 * e1 - e2 * e2 + e3 * e3>> >>

(* body to inertial rotation of Euler angles: Rz(psi) Ry(theta) Rx(phi) *)
euler_to_rotation(phi, theta, psi) ==
    LET cf == Cos(phi)
        sf == Sin(phi)
        ct == Cos(theta)
        st == Sin(theta)
        cp == Cos(psi)
        sp == Sin(psi)
    IN  << <<ct * cp, sf * st * cp - cf * sp, cf * st * cp + sf * sp>>,
           <<ct * sp, sf * st * sp + cf * cp, cf * st * sp - sf * cp>>,
           <<-st, sf * ct, cf * ct>> >>

(* the squared norm of the attitude quaternion of a 13-element state *)
QuatNorm2(state) ==
    state[7] * state[7] + state[8] * state[8] + state[9] * state[9] + state[10] * state[10]

-----------------------------------------------------------------------------
(* configuration and message types *)

(* parameters.aerosonde_parameters, on the grid.  u0 and the quaternion   *)
(* e0..e3 are the initial state; throttle is counted in halves, so that    *)
(* k_motor is the prop gain per half throttle.                            *)
MAV ==
    [north0 |-> 0, east0 |-> 0, down0 |-> -4,
     u0 |-> 3, v0 |-> 0, w0 |-> 0,
     e0 |-> 1, e1 |-> 0, e2 |-> 0, e3 |-> 0,
     p0 |-> 0, q0 |-> 0, r0 |-> 0,
     mass |-> 32, gravity |-> 1, Jx |-> 64, Jy |-> 64, Jz |-> 64,
     rho |-> 1, S_wing |-> 1, S_prop |-> 1, k_motor |-> 2, b |-> 2, c |-> 2,
     pi_e_AR |-> 2,
     C_L_0 |-> 1, C_L_alpha |-> 2, C_L_q |-> 1, C_L_delta_e |-> 1,
     C_D_p |-> 1, C_D_q |-> 0, C_D_delta_e |-> 1,
     C_m_0 |-> 0, C_m_alpha |-> -1, C_m_q |-> -1, C_m_delta_e |-> -2,
     C_Y_0 |-> 0, C_Y_beta |-> -1, C_Y_p |-> 0, C_Y_r |-> 0,
     C_Y_delta_a |-> 1, C_Y_delta_r |-> 1,
     C_ell_0 |-> 0, C_ell_beta |-> -1, C_ell_p |-> -1, C_ell_r |-> 1,
     C_ell_delta_a |-> 2, C_ell_delta_r |-> 0,
     C_n_0 |-> 0, C_n_beta |-> 1, C_n_p |-> 0, C_n_r |-> -1,
     C_n_delta_a |-> 0, C_n_delta_r |-> -2]

(* parameters.sensor_parameters: the GPS sample interval, and the decay   *)
(* exp(-gps_k * ts_gps) of the GPS bias as the fraction decay_num /       *)
(* decay_den.  The noise deviations are in the draws of Noises below.     *)
SENSOR == [ts_gps |-> 3, decay_num |-> 1, decay_den |-> 2]

(* message_types.msg_delta.MsgDelta() *)
MsgDelta == [aileron |-> 0, elevator |-> 0, rudder |-> 0, throttle |-> 1]

(* message_types.msg_state.MsgState() *)
MsgState ==
    [north |-> 0, east |-> 0, altitude |-> 0, Va |-> 0, alpha |-> 0, beta |-> 0,
     phi |-> 0, theta |-> 0, psi |-> 0, Vg |-> 0, gamma |-> 0, chi |-> 0,
     p |-> 0, q |-> 0, r |-> 0, wn |-> 0, we |-> 0,
     bx |-> 0, by |-> 0, bz |-> 0, camera_az |-> 0, camera_el |-> 0]

(* message_types.msg_sensors.MsgSensors() *)
MsgSensors ==
    [gyro_x |-> 0, gyro_y |-> 0, gyro_z |-> 0,
     accel_x |-> 0, accel_y |-> 0, accel_z |-> 0,
     mag_x |-> 0, mag_y |-> 0, mag_z |-> 0,
     abs_pressure |-> 0, diff_pressure |-> 0,
     gps_n |-> 0, gps_e |-> 0, gps_h |-> 0, gps_Vg |-> 0, gps_course |-> 0]

(* np.zeros((6,1)), the default wind *)
ZeroWind == <<0, 0, 0, 0, 0, 0>>

(* A value of current_forces_moments: the 6x1 array the force model      *)
(* leaves (val[i] is element [i-1][0]), or the flat list of six ints the  *)
(* constructor leaves.                                                    *)
ForceArray(f) == [shape |-> "array6x1", val |-> f]

ForceList == [shape |-> "list6", val |-> <<0, 0, 0, 0, 0, 0>>]

-----------------------------------------------------------------------------
(* private functions *)

Entered(m, name) == [m EXCEPT !.log = Append(@, name)]

(* _update_velocity_data with the gust added to the wind it subtracts *)
update_velocity_data_with_gust(m, wind) ==
    LET steady_state == SubSeq(wind, 1, 3)
        gust == SubSeq(wind, 4, 6)
        Vg_b == SubSeq(m.state, 4, 6)
        Va_b == [i \in 1..3 |-> Vg_b[i] - steady_state[i] - gust[i]]
        Va == Norm(Va_b)
    IN  [Entered(m, "_update_velocity_data") EXCEPT
            !.Va = Va,
            !.alpha = ArcTan2(Va_b[3], Va_b[1]),
            !.beta = ArcSin(Va_b[2], Va)]

(* _update_velocity_data that stores the steady wind in _wind *)
update_velocity_data_storing_wind(m, wind) ==
    LET steady_state == SubSeq(wind, 1, 3)
        Vg_b == SubSeq(m.state, 4, 6)
        Va_b == [i \in 1..3 |-> Vg_b[i] - steady_state[i]]
        Va == Norm(Va_b)
    IN  [Entered(m, "_update_velocity_data") EXCEPT
            !.wind = steady_state,
            !.Va = Va,
            !.alpha = ArcTan2(Va_b[3], Va_b[1]),
            !.beta = ArcSin(Va_b[2], Va)]

(* _update_velocity_data(wind): airspeed, angle of attack and sideslip *)
(* from the body velocity and the steady wind                          *)
update_velocity_data(m, wind) ==
    LET steady_state == SubSeq(wind, 1, 3)
        gust == SubSeq(wind, 4, 6)
        Vg_b == SubSeq(m.state, 4, 6)
        Va_b == [i \in 1..3 |-> Vg_b[i] - steady_state[i]]
        ur == Va_b[1]
        vr == Va_b[2]
        wr == Va_b[3]
        Va == Norm(Va_b)
    IN  [Entered(m, "_update_velocity_data") EXCEPT
            !.Va = Va,
            !.alpha = ArcTan2(wr, ur),
            !.beta = ArcSin(vr, Va)]

(* the blend (1 + M_minus + M_plus) / ((1 + M_minus)(1 + M_plus)) at the  *)
(* grid angles: the stall angle alpha0 lies within the first quarter turn *)
(* and the transition rate M is large, so the blend is 0 at alpha = 0 and *)
(* 1 at every other grid angle                                            *)
sigmoid(alpha) == IF alpha = 0 THEN 0 ELSE 1

(* _motor_thrust_torque(Va, delta_t) *)
motor_thrust_torque(Va, delta_t) ==
    LET k_delta == (MAV.k_motor * delta_t) \div 2
    IN  [thrust_prop |-> (MAV.rho * MAV.S_prop * (k_delta * k_delta - Va * Va)) \div 2,
         torque_prop |-> 0]

(* the 6-vector <<fx, fy, fz, l, m, n>> that _forces_moments(delta)     *)
(* computes from the state, the cached airspeed data and the controls   *)
ForceMomentOf(m, delta) ==
    LET eul == quaternion_to_euler(SubSeq(m.state, 7, 10))
        p == m.state[11]
        q == m.state[12]
        r == m.state[13]
        Va == m.Va
        alpha == m.alpha
        beta == m.beta
        fg_b == MatVec(Transpose(euler_to_rotation(eul.phi, eul.theta, eul.psi)),
                       <<0, 0, MAV.mass * MAV.gravity>>)
        lin == MAV.C_L_0 + MAV.C_L_alpha * alpha
        CL == (1 - sigmoid(alpha)) * lin
              + sigmoid(alpha) * (2 * Sign(alpha) * Sin(alpha) * Sin(alpha) * Cos(alpha))
        CD == MAV.C_D_p + (lin * lin) \div MAV.pi_e_AR
        q_bar == (MAV.rho * Va * Va) \div 2
        prop == motor_thrust_torque(Va, delta.throttle)
        Cx == -CD * Cos(alpha) + CL * Sin(alpha)
        Cxq == -MAV.C_D_q * Cos(alpha) + MAV.C_L_q * Sin(alpha)
        C_X_delta_e == -MAV.C_D_delta_e * Cos(alpha) + MAV.C_L_delta_e * Sin(alpha)
        fx == fg_b[1] + q_bar * MAV.S_wing * (Cx + (Cxq * MAV.c * q) \div (2 * Va))
              + q_bar * MAV.S_wing * (C_X_delta_e * delta.elevator) + prop.thrust_prop
        Cz == -CD * Sin(alpha) - CL * Cos(alpha)
        Czq == -MAV.C_D_q * Sin(alpha) - MAV.C_L_q * Cos(alpha)
        Cz_delta_e == -MAV.C_D_delta_e * Sin(alpha) - MAV.C_L_delta_e * Cos(alpha)
        fz == fg_b[3] + q_bar * MAV.S_wing * (Cz + (Czq * q * MAV.c) \div (2 * Va)
                                              + Cz_delta_e * delta.elevator)
        fy == fg_b[2] + q_bar * MAV.S_wing * (MAV.C_Y_0 + MAV.C_Y_beta * beta
                                              + (MAV.C_Y_p * p * MAV.b) \div (2 * Va)
                                              + (MAV.C_Y_r * MAV.b * r) \div (2 * Va))
              + q_bar * MAV.S_wing * (MAV.C_Y_delta_a * delta.aileron
                                      + MAV.C_Y_delta_r * delta.rudder)
        l == q_bar * MAV.S_wing * MAV.b * (MAV.C_ell_0 + MAV.C_ell_beta * beta
                                           + (MAV.C_ell_p * p * MAV.b) \div (2 * Va)
                                           + (MAV.C_ell_r * r * MAV.b) \div (2 * Va))
             + q_bar * MAV.S_wing * MAV.b * (MAV.C_ell_delta_a * delta.aileron
                                             + MAV.C_ell_delta_r * delta.rudder)
             + prop.torque_prop
        mm == q_bar * MAV.S_wing * MAV.c * (MAV.C_m_0 + MAV.C_m_alpha * alpha
                                            + (MAV.C_m_q * q * MAV.c) \div (2 * Va))
              + q_bar * MAV.S_wing * MAV.c * (MAV.C_m_delta_e * delta.elevator)
        n == q_bar * MAV.S_wing * MAV.b * (MAV.C_n_0 + MAV.C_n_beta * beta
                                           + (MAV.C_n_p * p * MAV.b) \div (2 * Va)
                                           + (MAV.C_n_r * r * MAV.b) \div (2 * Va))
             + q_bar * MAV.S_wing * MAV.b * (MAV.C_n_delta_a * delta.aileron
                                             + MAV.C_n_delta_r * delta.rudder)
    IN  <<fx, fy, fz, l, mm, n>>

(* _forces_moments(delta): writes the body rates of true_state, computes *)
(* the force/moment vector and caches it in current_forces_moments       *)
forces_moments(m, delta) ==
    [Entered(m, "_forces_moments") EXCEPT
        !.true_state.p = m.state[11],
        !.true_state.q = m.state[12],
        !.true_state.r = m.state[13],
        !.current_forces_moments = ForceArray(ForceMomentOf(m, delta))]

(* the true_state that _update_true_state() writes *)
TrueStateOf(m) ==
    LET eul == quaternion_to_euler(SubSeq(m.state, 7, 10))
        pdot == MatVec(quaternion_to_rotation(SubSeq(m.state, 7, 10)), SubSeq(m.state, 4, 6))
        Vg == Norm(pdot)
    IN  [north |-> m.state[1], east |-> m.state[2], altitude |-> -m.state[3],
         Va |-> m.Va, alpha |-> m.alpha, beta |-> m.beta,
         phi |-> eul.phi, theta |-> eul.theta, psi |-> eul.psi,
         Vg |-> Vg, gamma |-> ArcSin(-pdot[3], Vg), chi |-> ArcTan2(pdot[2], pdot[1]),
         p |-> m.state[11], q |-> m.state[12], r |-> m.state[13],
         wn |-> m.wind[1], we |-> m.wind[2],
         bx |-> 0, by |-> 0, bz |-> 0, camera_az |-> 0, camera_el |-> 0]

(* _update_true_state() *)
update_true_state(m) ==
    [Entered(m, "_update_true_state") EXCEPT !.true_state = TrueStateOf(m)]

(* The integrator of the base class, MavDynamicsForces._rk4_step: one    *)
(* fixed step of length ts_simulation of the rigid-body equations under *)
(* the force/moment vector, followed by the renormalisation of the       *)
(* quaternion.  StateDot is the derivative of the 13-element state.  The *)
(* angular rates p, q, r are counted in quarters, so a product with a    *)
(* rate is divided by 4, and the quaternion rate (half such a product)   *)
(* is kept multiplied by 8.                                              *)
StateDot(state, fm) ==
    LET vel == SubSeq(state, 4, 6)
        e == SubSeq(state, 7, 10)
        p == state[11]
        q == state[12]
        r == state[13]
        pos_dot == MatVec(quaternion_to_rotation(e), vel)
    IN  <<pos_dot[1], pos_dot[2], pos_dot[3],
          (r * vel[2] - q * vel[3]) \div 4 + fm[1] \div MAV.mass,
          (p * vel[3] - r * vel[1]) \div 4 + fm[2] \div MAV.mass,
          (q * vel[1] - p * vel[2]) \div 4 + fm[3] \div MAV.mass,
          -p * e[2] - q * e[3] - r * e[4],
          p * e[1] + r * e[3] - q * e[4],
          q * e[1] - r * e[2] + p * e[4],
          r * e[1] + q * e[2] - p * e[3],
          fm[4] \div MAV.Jx,
          fm[5] \div MAV.Jy,
          fm[6] \div MAV.Jz>>

(* e / |e| on the grid: the unit quaternion along the largest component *)
Normalize(e) ==
    LET big == CHOOSE i \in 1..4 :
                   /\ \A j \in 1..4 : Abs(e[i]) >= Abs(e[j])
                   /\ \A j \in 1..(i - 1) : Abs(e[j]) < Abs(e[i])
    IN  [i \in 1..4 |-> IF i = big THEN Sign(e[i]) ELSE 0]

rk4_step(m, fm) ==
    LET Ts == m.ts_simulation
        xdot == StateDot(m.state, fm)
        raw == [i \in 1..13 |->
                   IF i \in 7..10 THEN 8 * m.state[i] + Ts * xdot[i]
                   ELSE m.state[i] + Ts * xdot[i]]
        unit == Normalize(<<raw[7], raw[8], raw[9], raw[10]>>)
    IN  [Entered(m, "_rk4_step") EXCEPT
            !.state = [i \in 1..13 |-> IF i \in 7..10 THEN unit[i - 6] ELSE raw[i]]]

-----------------------------------------------------------------------------
(* initialisation and trim *)

(* the integration step without the renormalisation of the quaternion *)
rk4_step_raw(m, fm) ==
    LET Ts == m.ts_simulation
        xdot == StateDot(m.state, fm)
    IN  [Entered(m, "_rk4_step") EXCEPT
            !.state = [i \in 1..13 |->
                          IF i \in 7..10 THEN 8 * m.state[i] + Ts * xdot[i]
                          ELSE m.state[i] + Ts * xdot[i]]]

(* initialize_velocity that also zeroes the angular rates *)
initialize_velocity_resetting_rates(m, Va, alpha, beta) ==
    LET m1 == [m EXCEPT !.Va = Va,
                        !.alpha = alpha,
                        !.beta = beta,
                        !.state[4] = Va * Cos(alpha) * Cos(beta),
                        !.state[5] = Va * Sin(beta),
                        !.state[6] = Va * Sin(alpha) * Cos(beta),
                        !.state[11] = 0,
                        !.state[12] = 0,
                        !.state[13] = 0]
        m2 == update_velocity_data(m1, ZeroWind)
        m3 == forces_moments(m2, MsgDelta)
    IN  update_true_state(m3)

(* initialize_velocity(Va, alpha, beta) *)
initialize_velocity(m, Va, alpha, beta) ==
    LET m1 == [m EXCEPT !.Va = Va,
                        !.alpha = alpha,
                        !.beta = beta,
                        !.state[4] = Va * Cos(alpha) * Cos(beta),
                        !.state[5] = Va * Sin(beta),
                        !.state[6] = Va * Sin(alpha) * Cos(beta)]
        m2 == update_velocity_data(m1, ZeroWind)
        m3 == forces_moments(m2, MsgDelta)
    IN  update_true_state(m3)

(* calculate_trim_output(x), x = <<alpha, elevator, throttle>>: the     *)
(* instance after the call; TrimCost is the value returned              *)
calculate_trim_output(m, x) ==
    LET alpha == x[1]
        elevator == x[2]
        throttle == x[3]
        eul == quaternion_to_euler(SubSeq(m.state, 7, 10))
        quat == euler_to_quaternion(eul.phi, alpha, eul.psi)
        m1 == [m EXCEPT !.state = [i \in 1..13 |-> IF i \in 7..10 THEN quat[i - 6] ELSE @[i]]]
        m2 == initialize_velocity(m1, m1.Va, alpha, m1.beta)
        delta == [MsgDelta EXCEPT !.elevator = elevator, !.throttle = throttle]
    IN  forces_moments(m2, delta)

TrimCost(m) ==
    LET forces == m.current_forces_moments.val
    IN  forces[1] * forces[1] + forces[3] * forces[3] + forces[5] * forces[5]

(* MavDynamics(Ts): the base class constructor sets the state, the step   *)
(* and an empty true_state; current_forces_moments does not exist before *)
(* the force model first runs and is shown as the flat list meanwhile    *)
MavDynamics(Ts) ==
    LET base == [state |-> <<MAV.north0, MAV.east0, MAV.down0,
                              MAV.u0, MAV.v0, MAV.w0,
                              MAV.e0, MAV.e1, MAV.e2, MAV.e3,
                              MAV.p0, MAV.q0, MAV.r0>>,
                 ts_simulation |-> Ts,
                 true_state |-> MsgState,
                 Va |-> MAV.u0, alpha |-> 0, beta |-> 0,
                 wind |-> <<0, 0, 0>>,
                 forces |-> <<0, 0, 0>>,
                 current_forces_moments |-> ForceList,
                 sensors |-> MsgSensors,
                 gps_eta_n |-> 0, gps_eta_e |-> 0, gps_eta_h |-> 0,
                 t_gps |-> 0,
                 log |-> <<>>]
        m1 == initialize_velocity(base, MAV.u0, 0, 0)
    IN  [m1 EXCEPT !.sensors = MsgSensors,
                   !.gps_eta_n = 0,
                   !.gps_eta_e = 0,
                   !.gps_eta_h = 0,
                   !.t_gps = 999,
                   !.current_forces_moments = ForceList]

-----------------------------------------------------------------------------
(* public functions *)

(* magnetic inclination np.deg2rad(66) and declination np.deg2rad(2.13), *)
(* to the nearest grid angle                                            *)
inc == 1

dec == 0

(* One call's draws of np.random.normal, one per sensor channel, in     *)
(* units of the channel's deviation.                                    *)
Quiet ==
    [gyro |-> <<0, 0, 0>>, accel |-> <<0, 0, 0>>, mag |-> <<0, 0, 0>>,
     abs_pres |-> 0, diff_pres |-> 0,
     gps_n |-> 0, gps_e |-> 0, gps_h |-> 0, gps_Vg |-> 0, gps_course |-> 0]

Loud ==
    [gyro |-> <<1, -1, 2>>, accel |-> <<-1, 2, 1>>, mag |-> <<1, 2, -1>>,
     abs_pres |-> 3, diff_pres |-> -2,
     gps_n |-> 1, gps_e |-> -1, gps_h |-> 2, gps_Vg |-> 1, gps_course |-> 1]

Noises == {Quiet, Loud}

(* lines 76-80: the rate gyros *)
SenseGyros(m, noise) ==
    [m EXCEPT !.sensors.gyro_x = m.true_state.p + noise.gyro[1],
              !.sensors.gyro_y = m.true_state.q + noise.gyro[2],
              !.sensors.gyro_z = m.true_state.r + noise.gyro[3]]

(* lines 82-85: the accelerometers, read from the cached 6x1 array *)
SenseAccels(m, noise) ==
    LET fm == m.current_forces_moments.val
        theta == m.true_state.theta
        phi == m.true_state.phi
    IN  [m EXCEPT
            !.sensors.accel_x = fm[1] \div MAV.mass + MAV.gravity * Sin(theta) + noise.accel[1],
            !.sensors.accel_y = fm[2] \div MAV.mass - MAV.gravity * Cos(theta) * Sin(phi)
                                + noise.accel[2],
            !.sensors.accel_z = fm[3] \div MAV.mass - MAV.gravity * Cos(theta) * Cos(phi)
                                + noise.accel[3]]

(* lines 87-106: the magnetometers and the pressure sensors; the      *)
(* barometric formula is taken to first order in the altitude         *)
SenseMagPressure(m, noise) ==
    LET rotMatrix == Transpose(euler_to_rotation(0, -inc, dec))
        mi == MatVec(rotMatrix, <<1, 0, 0>>)
        mb == MatVec(Transpose(euler_to_rotation(m.true_state.phi, m.true_state.theta,
                                                 m.true_state.psi)), mi)
    IN  [m EXCEPT
            !.sensors.mag_x = mb[1] * noise.mag[1],
            !.sensors.mag_y = mb[2] * noise.mag[2],
            !.sensors.mag_z = mb[3] * noise.mag[3],
            !.sensors.abs_pressure = 101325 - 12 * m.true_state.altitude + noise.abs_pres,
            !.sensors.diff_pressure = (MAV.rho * m.true_state.Va * m.true_state.Va) \div 2
                                      + noise.diff_pres]

(* the bias exp(-gps_k * ts_gps) * eta + normal(0, sigma) * ts_gps *)
GaussMarkov(eta, draw) == (SENSOR.decay_num * eta) \div SENSOR.decay_den + draw * SENSOR.ts_gps

(* the value the timer takes in the branch that samples the GPS (line 122) *)
TimerAfterSample(m) == m.t_gps + m.ts_simulation

(* lines 108-124: the GPS.  The draws _gps_eta_Vg and _gps_eta_course  *)
(* are stored but read only in the statement that follows them, so    *)
(* they are used here as the draws themselves.                        *)
SenseGps(m, noise) ==
    IF m.t_gps >= SENSOR.ts_gps
    THEN LET eta_n == GaussMarkov(m.gps_eta_n, noise.gps_n)
             eta_e == GaussMarkov(m.gps_eta_e, noise.gps_e)
             eta_h == GaussMarkov(m.gps_eta_h, noise.gps_h)
             ts == m.true_state
             vn == ts.Va * Cos(ts.psi) + ts.wn
             ve == ts.Va * Sin(ts.psi) + ts.we
         IN  [m EXCEPT
                 !.gps_eta_n = eta_n,
                 !.gps_eta_e = eta_e,
                 !.gps_eta_h = eta_h,
                 !.sensors.gps_n = ts.north + eta_n,
                 !.sensors.gps_e = ts.east + eta_e,
                 !.sensors.gps_h = ts.altitude + eta_h,
                 !.sensors.gps_Vg = Sqrt(vn * vn + ve * ve) + noise.gps_Vg,
                 !.sensors.gps_course = ArcTan2(ve, vn) + noise.gps_course,
                 !.t_gps = TimerAfterSample(m)]
    ELSE [m EXCEPT !.t_gps = m.t_gps + m.ts_simulation]

(* whether sensors() raises: line 83 indexes current_forces_moments[0][0], *)
(* a TypeError on the flat list of ints                                   *)
SensorsRaises(m) == m.current_forces_moments.shape # "array6x1"

(* sensors() that runs the force model for its accelerometers *)
sensors_recomputing(m, noise) ==
    LET m0 == [m EXCEPT !.log = <<>>]
        m1 == SenseGyros(m0, noise)
        m2 == forces_moments(m1, MsgDelta)
    IN  SenseGps(SenseMagPressure(SenseAccels(m2, noise), noise), noise)

(* sensors(): the instance after the call.  A call that raises has      *)
(* written the gyros and nothing else.                                  *)
sensors(m, noise) ==
    LET m0 == [m EXCEPT !.log = <<>>]
        m1 == SenseGyros(m0, noise)
    IN  IF SensorsRaises(m1)
        THEN m1
        ELSE SenseGps(SenseMagPressure(SenseAccels(m1, noise), noise), noise)

(* update() that integrates before it runs the force model *)
update_integrating_first(m, delta, wind) ==
    LET m0 == [m EXCEPT !.log = <<>>]
        m1 == rk4_step(m0, ForceMomentOf(m0, MsgDelta))
        m2 == forces_moments(m1, delta)
        m3 == update_velocity_data(m2, wind)
    IN  update_true_state(m3)

(* update() whose integration step leaves the quaternion as integrated *)
update_without_renormalization(m, delta, wind) ==
    LET m0 == [m EXCEPT !.log = <<>>]
        m1 == forces_moments(m0, delta)
        m2 == rk4_step_raw(m1, m1.current_forces_moments.val)
        m3 == update_velocity_data(m2, wind)
    IN  update_true_state(m3)

(* update(delta, wind) *)
update(m, delta, wind) ==
    LET m0 == [m EXCEPT !.log = <<>>]
        m1 == forces_moments(m0, delta)
        m2 == rk4_step(m1, m1.current_forces_moments.val)
        m3 == update_velocity_data(m2, wind)
    IN  update_true_state(m3)

-----------------------------------------------------------------------------
(* the callers *)

TsValues == {1, 2}

Deltas == {MsgDelta, [aileron |-> 1, elevator |-> -1, rudder |-> 1, throttle |-> 2]}

(* wind vectors: a steady wind with a gust, and calm air *)
Winds == {<<1, 1, 0, 0, 1, 1>>, <<0, 0, 0, 0, 0, 0>>}

(* the same steady wind with the other gust *)
OtherGust(wind) ==
    SubSeq(wind, 1, 3) \o (IF SubSeq(wind, 4, 6) = <<0, 0, 0>> THEN <<0, 1, 1>> ELSE <<0, 0, 0>>)

(* <<Va, alpha, beta>> *)
VelocityInputs == {<<4, 0, 0>>, <<2, 1, 0>>}

(* <<alpha, elevator, throttle>> *)
TrimInputs == {<<0, -1, 2>>, <<2, 1, 0>>}

(* The callers keep the vehicle away from the singular points of the   *)
(* model: the airspeed and the ground speed stay positive.              *)
Regular(m) == m.Va > 0 /\ m.true_state.Vg > 0

NoArgs == [delta |-> MsgDelta, wind |-> ZeroWind, noise |-> Quiet, x |-> <<0, 0, 0>>]

(* op: the public call that led to the current state, whether it raised, *)
(* whether it sampled the GPS (sensors), what it returned                *)
(* (calculate_trim_output) and what it was given                         *)
Called(name, raised, gps, ret, args) ==
    [name |-> name, raised |-> raised, gps |-> gps, ret |-> ret, args |-> args]

(* whether a sensors() call on m reaches the branch of line 109 *)
GpsDue(m) == ~SensorsRaises(m) /\ m.t_gps >= SENSOR.ts_gps

Init ==
    /\ mav \in {MavDynamics(Ts) : Ts \in TsValues}
    /\ twin = mav
    /\ op = Called("__init__", FALSE, FALSE, 0, NoArgs)
    /\ calls = 0

(* twin is a second instance that receives the same calls, except that *)
(* the wind of its update() carries the other gust.                    *)
Sensors ==
    /\ calls < MaxCalls
    /\ \E noise \in Noises :
          /\ mav' = sensors(mav, noise)
          /\ twin' = sensors(twin, noise)
          /\ op' = Called("sensors", SensorsRaises(mav), GpsDue(mav), 0, [NoArgs EXCEPT !.noise = noise])
    /\ calls' = calls + 1

Update ==
    /\ calls < MaxCalls
    /\ \E delta \in Deltas, wind \in Winds :
          /\ mav' = update(mav, delta, wind)
          /\ twin' = update(twin, delta, OtherGust(wind))
          /\ Regular(mav') /\ Regular(twin')
          /\ op' = Called("update", FALSE, FALSE, 0, [NoArgs EXCEPT !.delta = delta, !.wind = wind])
    /\ calls' = calls + 1

InitializeVelocity ==
    /\ calls < MaxCalls
    /\ \E x \in VelocityInputs :
          /\ mav' = initialize_velocity([mav EXCEPT !.log = <<>>], x[1], x[2], x[3])
          /\ twin' = initialize_velocity([twin EXCEPT !.log = <<>>], x[1], x[2], x[3])
          /\ op' = Called("initialize_velocity", FALSE, FALSE, 0, [NoArgs EXCEPT !.x = x])
    /\ calls' = calls + 1

CalculateTrimOutput ==
    /\ calls < MaxCalls
    /\ \E x \in TrimInputs :
          /\ mav' = calculate_trim_output([mav EXCEPT !.log = <<>>], x)
          /\ twin' = calculate_trim_output([twin EXCEPT !.log = <<>>], x)
          /\ Regular(mav') /\ Regular(twin')
          /\ op' = Called("calculate_trim_output", FALSE, FALSE, TrimCost(mav'), [NoArgs EXCEPT !.x = x])
    /\ calls' = calls + 1

Next == Sensors \/ Update \/ InitializeVelocity \/ CalculateTrimOutput

Spec == Init /\ [][Next]_vars

-----------------------------------------------------------------------------
(* what the properties speak of *)

GpsFields(m) ==
    <<m.sensors.gps_n, m.sensors.gps_e, m.sensors.gps_h, m.sensors.gps_Vg, m.sensors.gps_course>>

GpsBias(m) == <<m.gps_eta_n, m.gps_eta_e, m.gps_eta_h>>

AeroState(m) == <<m.Va, m.alpha, m.beta>>

Quaternion(m) == SubSeq(m.state, 7, 10)

(* the elements of the state at the (1-based) places S are unchanged *)
Kept(S) == \A i \in S : mav'.state[i] = mav.state[i]

(* the cached quantities of m agree with its state: the airspeed data   *)
(* are those the velocity resolution derives under wind, the cache is   *)
(* the force model's vector for delta, true_state is the projection     *)
Consistent(m, delta, wind) ==
    /\ AeroState(m) = AeroState(update_velocity_data(m, wind))
    /\ m.current_forces_moments = ForceArray(ForceMomentOf(m, delta))
    /\ m.true_state = TrueStateOf(m)

-----------------------------------------------------------------------------
(* C1: the GPS fields and the GPS bias change only in a sensors() call   *)
(* that finds the timer at ts_gps or beyond, every other call leaves     *)
(* them alone, and with Ts < ts_gps the sensors() call that follows a    *)
(* call that sampled the GPS returns the same GPS values.                *)
C1_GpsHeldBetweenSamples ==
    [][/\ (GpsFields(mav') # GpsFields(mav) \/ GpsBias(mav') # GpsBias(mav))
            => (op'.name = "sensors" /\ mav.t_gps >= SENSOR.ts_gps)
       /\ (op'.name = "sensors" /\ op.name = "sensors" /\ op.gps
              /\ mav.ts_simulation < SENSOR.ts_gps)
            => GpsFields(mav') = GpsFields(mav)]_vars

(* C2: a sensors() call that samples the GPS resets the timer, so the    *)
(* timer is below ts_gps after the call (Ts < ts_gps).                   *)
C2_TimerResetOnSample ==
    (op.name = "sensors" /\ op.gps /\ mav.ts_simulation < SENSOR.ts_gps)
        => mav.t_gps < SENSOR.ts_gps

(* C3: every sensors() call advances the GPS timer by exactly Ts; the    *)
(* other operations leave the timer, the GPS bias and the sensor         *)
(* readings unchanged.                                                   *)
C3_TimerAdvancesEverySensorsCall ==
    [][/\ op'.name = "sensors" => mav'.t_gps = mav.t_gps + mav.ts_simulation
       /\ op'.name # "sensors"
            => (mav'.t_gps = mav.t_gps /\ GpsBias(mav') = GpsBias(mav)
                /\ mav'.sensors = mav.sensors)]_vars

(* C4, as claimed: only update() changes an element of the state. *)
C4_OnlyIntegratorWritesState ==
    [][mav'.state # mav.state => op'.name = "update"]_vars

(* C4, amended: sensors() writes no element of the state;               *)
(* initialize_velocity() writes only the body velocity (elements 3..5), *)
(* calculate_trim_output() only the quaternion and the body velocity    *)
(* (elements 3..9); the position and the angular rates change only in   *)
(* update().                                                            *)
C4_StateWriters ==
    [][/\ op'.name = "sensors" => Kept(1..13)
       /\ op'.name = "initialize_velocity" => Kept((1..3) \cup (7..13))
       /\ op'.name = "calculate_trim_output" => Kept((1..3) \cup (11..13))
       /\ ~Kept((1..3) \cup (11..13)) => op'.name = "update"]_vars

C4_Witness ==
    /\ op.name = "calculate_trim_output"
    /\ Quaternion(mav) # <<MAV.e0, MAV.e1, MAV.e2, MAV.e3>>
    /\ mav.state[1] # MAV.north0
    /\ mav.state[13] # MAV.r0

(* C5: the cache changes only in a call that runs the force model;      *)
(* sensors() does not run it and leaves the cache, the state, the       *)
(* airspeed data and true_state unchanged, and the accelerometer values *)
(* it returns are computed from the cached vector.                      *)
C5_SensorsReadsCachedForces ==
    [][/\ mav'.current_forces_moments # mav.current_forces_moments
            => \E i \in 1..Len(mav'.log) : mav'.log[i] = "_forces_moments"
       /\ op'.name = "sensors"
            => /\ mav'.log = <<>>
               /\ mav'.current_forces_moments = mav.current_forces_moments
               /\ mav'.state = mav.state
               /\ AeroState(mav') = AeroState(mav)
               /\ mav'.true_state = mav.true_state
       /\ (op'.name = "sensors" /\ ~op'.raised)
            => LET fm == mav.current_forces_moments.val
                   ts == mav.true_state
                   noise == op'.args.noise
               IN  /\ mav.current_forces_moments.shape = "array6x1"
                   /\ mav'.sensors.accel_x
                        = fm[1] \div MAV.mass + MAV.gravity * Sin(ts.theta) + noise.accel[1]
                   /\ mav'.sensors.accel_y
                        = fm[2] \div MAV.mass - MAV.gravity * Cos(ts.theta) * Sin(ts.phi)
                          + noise.accel[2]
                   /\ mav'.sensors.accel_z
                        = fm[3] \div MAV.mass - MAV.gravity * Cos(ts.theta) * Cos(ts.phi)
                          + noise.accel[3]]_vars

C5_Witness ==
    /\ op.name = "sensors"
    /\ ~op.raised
    /\ mav.current_forces_moments.val # ForceMomentOf(mav, MsgDelta)
    /\ mav.sensors.accel_x # op.args.noise.accel[1]

(* C6: after construction and after every initialize_velocity() the     *)
(* cached airspeed data, force/moment vector and true_state agree with  *)
(* the state, and no sensors() call fails on the cache.                 *)
C6_CachesConsistentAfterInit ==
    /\ op.name \in {"__init__", "initialize_velocity"} => Consistent(mav, MsgDelta, ZeroWind)
    /\ op.name = "sensors" => ~op.raised

(* C7: update(delta, wind) enters the force model, the integrator, the  *)
(* velocity resolution and the projection once each, in this order; the *)
(* cached vector is the force model's for the state and airspeed data   *)
(* before the step, the state is the integrator's under that vector,    *)
(* the airspeed data and true_state are those of the new state and the  *)
(* wind of this call.                                                   *)
C7_UpdateOrder ==
    [][op'.name = "update"
         => LET delta == op'.args.delta
                wind == op'.args.wind
                fm == ForceMomentOf(mav, delta)
            IN  /\ mav'.log = <<"_forces_moments", "_rk4_step",
                                "_update_velocity_data", "_update_true_state">>
                /\ mav'.current_forces_moments = ForceArray(fm)
                /\ mav'.state = rk4_step(mav, fm).state
                /\ AeroState(mav') = AeroState(update_velocity_data(mav', wind))
                /\ mav'.true_state = TrueStateOf(mav')]_vars

C7_Witness ==
    /\ op.name = "update"
    /\ calls >= 2
    /\ SubSeq(op.args.wind, 1, 3) # <<0, 0, 0>>
    /\ mav.current_forces_moments.val # ForceMomentOf(mav, op.args.delta)
    /\ AeroState(mav) # AeroState(update_velocity_data(mav, ZeroWind))

C9_GustIgnored ==
    /\ twin.state = mav.state
    /\ AeroState(twin) = AeroState(mav)
    /\ twin.current_forces_moments = mav.current_forces_moments
    /\ twin.true_state = mav.true_state

C9_Witness ==
    /\ op.name = "update"
    /\ calls >= 3
    /\ SubSeq(op.args.wind, 4, 6) # SubSeq(OtherGust(op.args.wind), 4, 6)
    /\ SubSeq(op.args.wind, 4, 6) # <<0, 0, 0>>
    /\ mav.Va # mav.true_state.Vg

=============================================================================
